---------------------------- MODULE Spec2Model ----------------------------
(***************************************************************************)
(* State-machine model of arch_install.py, the interactive Arch Linux      *)
(* installer.  The program is sequential: pc is the position of the single *)
(* thread of control, ip the index inside the command list or loop of the  *)
(* function it is in.  Every external command (run_command, check_output), *)
(* every call into the partitioning backend and every operator answer is   *)
(* an environment choice.  Strings are modelled as strings: an f-string is *)
(* a concatenation, and a printed line or a shell command is the text the  *)
(* program builds.                                                         *)
(*                                                                         *)
(* Two kinds of initial state are modelled: main() entered from the top    *)
(* (entry = "main"), and the installation stages entered at the call of    *)
(* partition_disk (entry = "partition_disk") with arguments drawn from     *)
(* DiskNames and BOOLEAN, so that the contracts of the stage functions are *)
(* checked on every argument they accept.                                  *)
(***************************************************************************)
EXTENDS Integers, Sequences, FiniteSets, TLC

VARIABLES
    pc,          \* position of the thread of control
    ip,          \* index in the current function's command list / loop
    entry,       \* where the behaviour entered the program
    netStage,    \* which call of check_internet is running
    uefi,        \* main: uefi
    disks,       \* main: disks (value returned by list_disks)
    disk,        \* main: disk
    swap,        \* auto_partition_disk: swap
    device,      \* auto_partition_disk: device (length, sectorSize)
    start,       \* auto_partition_disk: start
    table,       \* auto_partition_disk: disk_obj, the partitions added so far
    committed,   \* the partition table written to the disk by commit()
    mode,        \* how partition_disk produced the paths: "auto" / "manual"
    partitions,  \* main: partitions (list of device paths)
    blk,         \* the filesystems on block devices (path -> type, uuid)
    mounts,      \* the mount table (mount point -> device path)
    desktop,     \* install_desktop_environment: (name, packages, dm) chosen
    hostname,    \* main: hostname
    username,    \* main: username
    password,    \* main: password
    secrets,     \* every non-empty text the operator typed at a getpass prompt
    depth,       \* number of active frames of install_bootloader
    files,       \* the files the program wrote itself (path -> lines)
    cmds,        \* every external command issued, with its exit status
    stdout,      \* every line the program wrote with print()
    failure,     \* the exception or exit that ended the run ("none" if none)
    exitCode,    \* the exit status of the process (Running until it exits)
    wdev,        \* configure_network: device
    calls        \* the functions called so far, in call order

vars == <<pc, ip, entry, netStage, uefi, disks, disk, swap, device, start,
          table, committed, mode, partitions, blk, mounts, desktop, hostname,
          username, password, secrets, depth, files, cmds, stdout, failure,
          exitCode, wdev, calls>>

mainVars == <<entry, uefi, disks, disk>>
netVars == <<netStage, wdev>>
partVars == <<swap, device, start, table, committed, mode, partitions>>
envVars == <<blk, mounts, files>>
cfgVars == <<desktop, hostname, username, password, depth>>

---------------------------------------------------------------------------
(* Bounds of the model and the inputs the environment draws from.          *)

\* Largest number of nested install_bootloader frames explored.
MaxDepth == 3

Running == -1
Unset == "unset"

DiskNames == {"sda", "vdb"}
DiskAnswers == {"sda", " vdb ", "sdz"}

\* Exit statuses an external command may return.
ExitStatuses == {0, 1}

\* What the operator may type at a menu prompt (input() keeps the blanks).
MenuAnswers == {"", "1", " 2 ", "3", "9"}
DesktopAnswers == {"", "1", "4 ", "8", "x"}
BootAnswers == {"", "1", "2", " 3", "7"}
HostAnswers == {"", " arch1 "}
UserAnswers == {"alice"}
PassAnswers == {"S3cr3t", "hunter2"}
WifiDevAnswers == {"wlan0"}
SsidAnswers == {"home net"}
WifiPassAnswers == {"", "wifiKey9"}
ManualAnswers == {"", "/dev/sda1", " /dev/sda1  /dev/sda2 ",
                  "/dev/sda1 /dev/sda2 /dev/sda3", "/dev/vdb2 /dev/vdb1"}

\* Devices the partitioning backend may report: 4 GiB and 16 GiB with
\* 512-byte sectors, 8 GiB with 4096-byte sectors.
Devices == { [length |-> 8388608,  sectorSize |-> 512],
             [length |-> 33554432, sectorSize |-> 512],
             [length |-> 2097152,  sectorSize |-> 4096] }

---------------------------------------------------------------------------
(* Python strings: str.strip() and str.split().                            *)

IsSpace(c) == c \in {" ", "\t", "\n"}

RECURSIVE LStrip(_)
LStrip(s) ==
    IF Len(s) > 0 /\ IsSpace(SubSeq(s, 1, 1))
    THEN LStrip(SubSeq(s, 2, Len(s)))
    ELSE s

RECURSIVE RStrip(_)
RStrip(s) ==
    IF Len(s) > 0 /\ IsSpace(SubSeq(s, Len(s), Len(s)))
    THEN RStrip(SubSeq(s, 1, Len(s) - 1))
    ELSE s

Strip(s) == RStrip(LStrip(s))

\* Length of the leading run of non-blank characters of s.
RECURSIVE WordLen(_)
WordLen(s) ==
    IF Len(s) = 0 \/ IsSpace(SubSeq(s, 1, 1))
    THEN 0
    ELSE 1 + WordLen(SubSeq(s, 2, Len(s)))

RECURSIVE Split(_)
Split(s) ==
    LET t == LStrip(s)
        n == WordLen(t)
    IN  IF Len(t) = 0
        THEN << >>
        ELSE <<SubSeq(t, 1, n)>> \o Split(SubSeq(t, n + 1, Len(t)))

\* Whether text t occurs in text s.
Contains(s, t) ==
    \E i \in 1..(Len(s) - Len(t) + 1) : SubSeq(s, i, i + Len(t) - 1) = t

---------------------------------------------------------------------------
(* Python's unbounded integers.  A natural number is the sequence of its   *)
(* base-Base digits, least significant first, without leading zeros; the   *)
(* difference of two naturals is a signed value [neg, mag].                *)

Base == 10000

RECURSIVE NatOf(_)
NatOf(n) == IF n = 0 THEN << >> ELSE <<n % Base>> \o NatOf(n \div Base)

RECURSIVE NatTrim(_)
NatTrim(a) ==
    IF Len(a) > 0 /\ a[Len(a)] = 0 THEN NatTrim(SubSeq(a, 1, Len(a) - 1)) ELSE a

Digit(a, i) == IF i <= Len(a) THEN a[i] ELSE 0
Rest(a) == IF a = << >> THEN << >> ELSE Tail(a)

RECURSIVE NatAddC(_, _, _)
NatAddC(a, b, c) ==
    IF a = << >> /\ b = << >>
    THEN NatOf(c)
    ELSE LET s == Digit(a, 1) + Digit(b, 1) + c
         IN  <<s % Base>> \o NatAddC(Rest(a), Rest(b), s \div Base)

NatAdd(a, b) == NatAddC(a, b, 0)

RECURSIVE NatLess(_, _)
NatLess(a, b) ==
    IF Len(a) # Len(b) THEN Len(a) < Len(b)
    ELSE IF a = << >> THEN FALSE
    ELSE LET n == Len(a)
         IN  IF a[n] # b[n] THEN a[n] < b[n]
             ELSE NatLess(SubSeq(a, 1, n - 1), SubSeq(b, 1, n - 1))

NatLeq(a, b) == ~NatLess(b, a)

\* a - b for a >= b.
RECURSIVE NatSubB(_, _, _)
NatSubB(a, b, borrow) ==
    IF a = << >> THEN << >>
    ELSE LET d == a[1] - Digit(b, 1) - borrow
         IN  IF d < 0
             THEN <<d + Base>> \o NatSubB(Tail(a), Rest(b), 1)
             ELSE <<d>> \o NatSubB(Tail(a), Rest(b), 0)

NatSub(a, b) == NatTrim(NatSubB(a, b, 0))

RECURSIVE NatMulDigit(_, _, _)
NatMulDigit(a, m, c) ==
    IF a = << >> THEN NatOf(c)
    ELSE LET p == a[1] * m + c
         IN  <<p % Base>> \o NatMulDigit(Tail(a), m, p \div Base)

RECURSIVE NatMul(_, _)
NatMul(a, b) ==
    IF b = << >> THEN << >>
    ELSE LET hi == NatMul(a, Tail(b))
         IN  NatTrim(NatAdd(NatMulDigit(a, b[1], 0),
                            IF hi = << >> THEN << >> ELSE <<0>> \o hi))

\* Quotient digits of a divided by the small divisor d, r the running remainder.
RECURSIVE NatDivTop(_, _, _)
NatDivTop(a, d, r) ==
    IF a = << >> THEN << >>
    ELSE LET n == Len(a)
             cur == r * Base + a[n]
         IN  NatDivTop(SubSeq(a, 1, n - 1), d, cur % d) \o <<cur \div d>>

\* a // d for a >= 0 and 0 < d < Base.
NatFloorDiv(a, d) == NatTrim(NatDivTop(a, d, 0))

\* The signed value a - b.
PySub(a, b) ==
    IF NatLess(a, b)
    THEN [neg |-> TRUE, mag |-> NatSub(b, a)]
    ELSE [neg |-> FALSE, mag |-> NatSub(a, b)]

PyNat(a) == [neg |-> FALSE, mag |-> a]

\* x < 1 for a signed value x.
PyLessThanOne(x) == x.neg \/ x.mag = << >>

---------------------------------------------------------------------------
(* Control: printing, raising, exiting, running a command.                 *)

\* print(...) of the given lines, then continue at nextPc.
Goto(lines, nextPc, nextIp) ==
    /\ stdout' = stdout \o lines
    /\ pc' = nextPc
    /\ ip' = nextIp
    /\ failure' = failure
    /\ exitCode' = exitCode

\* The process ends with status 1 after printing the given lines.
Die(lines, f) ==
    /\ stdout' = stdout \o lines
    /\ pc' = "exit"
    /\ ip' = ip
    /\ failure' = f
    /\ exitCode' = 1

\* sys.exit(1): SystemExit is not an Exception, nothing more is printed.
SysExit(lines) == Die(lines, "SystemExit")

\* An exception reaches the handler of the main guard.
Uncaught(lines, f, msg) == Die(lines \o <<"An error occurred: " \o msg>>, f)

\* Mutant: run_command without check, a non-zero status goes unnoticed.
RunCommandNeverRaises(rc) == FALSE

\* run_command with check=True raises on a non-zero exit status.
RunCommandRaises(rc) == rc # 0

\* What run_command prints before it re-raises.
RunCommandErrorLines(command) ==
    <<"Error executing command: " \o command, "Output: <stderr>">>

\* str(CalledProcessError).
CalledProcessErrorText(command, rc) ==
    "Command '" \o command \o "' returned non-zero exit status "
        \o ToString(rc) \o "."

\* run_command(command) between the prints pre and post; rc is the status
\* the command returns.
RunStep(rc, pre, command, post, nextPc, nextIp) ==
    /\ cmds' = Append(cmds, [cmd |-> command, rc |-> rc])
    /\ IF RunCommandRaises(rc)
       THEN Uncaught(pre \o RunCommandErrorLines(command), "CalledProcessError",
                     CalledProcessErrorText(command, rc))
       ELSE Goto(pre \o post, nextPc, nextIp)

\* x or default, for strings.
PyOr(x, default) == IF x = "" THEN default ELSE x

PyNone == [type |-> "NoneType", items |-> << >>]

RECURSIVE JoinQuoted(_)
JoinQuoted(items) ==
    IF items = << >> THEN ""
    ELSE "'" \o Head(items) \o "'"
         \o (IF Len(items) > 1 THEN ", " ELSE "") \o JoinQuoted(Tail(items))

\* str() of a value print() receives.
PyStr(v) == IF v.type = "NoneType" THEN "None" ELSE "[" \o JoinQuoted(v.items) \o "]"

Range(seq) == {seq[i] : i \in DOMAIN seq}

---------------------------------------------------------------------------
(* main, up to the disk selection.                                         *)

\* Module level: the script must run as root.
RootCheck ==
    /\ pc = "root_check"
    /\ \E euid \in {0, 1000} :
         IF euid # 0
         THEN SysExit(<<"This script must be run as root. Please use sudo or switch to root.">>)
         ELSE Goto(<< >>, "main", ip)
    /\ UNCHANGED <<mainVars, netVars, partVars, envVars, cfgVars, secrets,
                   cmds, calls>>

\* main: banner, detect_uefi, then configure_network calls check_internet.
Main ==
    /\ pc = "main"
    /\ \E u \in BOOLEAN :
         /\ uefi' = u
         /\ Goto(<<"Arch Linux Installation Script",
                   "=================================",
                   "Boot mode: " \o (IF u THEN "UEFI" ELSE "BIOS")>>,
                 "check_internet", ip)
    /\ netStage' = "initial"
    /\ calls' = calls \o <<"detect_uefi", "configure_network">>
    /\ UNCHANGED <<entry, disks, disk, wdev, cmds, secrets>>
    /\ UNCHANGED <<partVars, envVars, cfgVars>>

PingCommand == "ping -c 1 archlinux.org"

\* check_internet and what its caller in configure_network does with the result.
CheckInternet ==
    /\ pc = "check_internet"
    /\ \E rc \in ExitStatuses :
         LET head == <<"Checking internet connectivity...">>
             err == RunCommandErrorLines(PingCommand)
                      \o <<"No internet connection detected.">>
         IN  /\ cmds' = Append(cmds, [cmd |-> PingCommand, rc |-> rc])
             /\ IF ~RunCommandRaises(rc)
                THEN Goto(head \o <<"Internet connection confirmed.">>
                            \o (CASE netStage = "dhcp" ->
                                       <<"Network configured via DHCP.">>
                                  [] netStage = "wifi" ->
                                       <<"Wi-Fi configured successfully.">>
                                  [] OTHER -> << >>),
                          "list_disks", ip)
                ELSE CASE netStage = "dhcp" ->
                            SysExit(head \o err \o
                              <<"DHCP failed. Please configure manually or try Wi-Fi.">>)
                       [] netStage = "wifi" ->
                            SysExit(head \o err \o
                              <<"Wi-Fi connection failed. Please check credentials or configure manually.">>)
                       [] OTHER ->
                            Goto(head \o err \o <<"Network configuration required.">>,
                                 "network_choice", ip)
    /\ UNCHANGED <<mainVars, netVars, partVars, envVars, cfgVars, secrets, calls>>

\* configure_network: the menu and the first command of the chosen branch.
NetworkChoice ==
    /\ pc = "network_choice"
    /\ \E a \in MenuAnswers, rc \in ExitStatuses :
         LET choice == Strip(a)
         IN  CASE choice = "1" ->
                    /\ RunStep(rc, << >>, "dhcpcd", << >>, "check_internet", ip)
                    /\ netStage' = "dhcp"
               [] choice = "2" ->
                    /\ RunStep(rc, <<"Scanning for Wi-Fi networks...">>,
                               "iwctl device list", << >>, "wifi_station", 1)
                    /\ netStage' = netStage
               [] OTHER ->
                    /\ SysExit(<<"Skipping network configuration. Installation may fail without internet.">>)
                    /\ cmds' = cmds
                    /\ netStage' = netStage
    /\ UNCHANGED <<mainVars, wdev, partVars, envVars, cfgVars, secrets, calls>>

\* configure_network, Wi-Fi branch: scan and get-networks on the device typed.
WifiStation ==
    /\ pc = "wifi_station"
    /\ \E a \in WifiDevAnswers, rc \in ExitStatuses :
         IF ip = 1
         THEN /\ wdev' = Strip(a)
              /\ RunStep(rc, << >>, "iwctl station " \o Strip(a) \o " scan", << >>,
                         "wifi_station", 2)
         ELSE /\ wdev' = wdev
              /\ RunStep(rc, << >>, "iwctl station " \o wdev \o " get-networks",
                         << >>, "wifi_connect", ip)
    /\ UNCHANGED <<mainVars, netStage, partVars, envVars, cfgVars, secrets, calls>>

\* The connect command of the Wi-Fi branch.
WifiConnectCommand(dev, ssid, pass) ==
    IF pass # ""
    THEN "iwctl station " \o dev \o " connect '" \o ssid \o "' --passphrase '"
           \o pass \o "'"
    ELSE "iwctl station " \o dev \o " connect '" \o ssid \o "'"

\* configure_network, Wi-Fi branch: SSID, passphrase, connect.
WifiConnect ==
    /\ pc = "wifi_connect"
    /\ \E s \in SsidAnswers, p \in WifiPassAnswers, rc \in ExitStatuses :
         /\ secrets' = secrets \cup ({p} \ {""})
         /\ RunStep(rc, << >>, WifiConnectCommand(wdev, Strip(s), p), << >>,
                    "check_internet", ip)
    /\ netStage' = "wifi"
    /\ UNCHANGED <<mainVars, wdev, partVars, envVars, cfgVars, calls>>

\* list_disks: prints, builds a local list and falls off its end.
list_disks == PyNone

\* main: disks = list_disks(); print("Available disks:", disks).
ListDisks ==
    /\ pc = "list_disks"
    /\ disks' = list_disks
    /\ Goto(<<"Detecting available disks...",
              "Available disks: " \o PyStr(list_disks)>>, "select_disk", ip)
    /\ calls' = calls \o <<"list_disks">>
    /\ UNCHANGED <<entry, uefi, disk, netVars, partVars, envVars, cfgVars,
                   secrets, cmds>>

\* main: the disk prompt and the membership test over disks.
SelectDisk ==
    /\ pc = "select_disk"
    /\ \E a \in DiskAnswers :
         LET d == Strip(a)
         IN  /\ disk' = d
             /\ IF disks.type # "list"
                THEN Uncaught(<< >>, "TypeError",
                              "'" \o disks.type \o "' object is not iterable")
                ELSE IF ("/dev/" \o d) \notin {"/dev/" \o x : x \in Range(disks.items)}
                THEN SysExit(<<"Invalid disk selected.">>)
                ELSE Goto(<< >>, "partition_disk", ip)
    /\ UNCHANGED <<entry, uefi, disks, netVars, partVars, envVars, cfgVars,
                   secrets, cmds, calls>>

---------------------------------------------------------------------------
(* partition_disk, manual_partitioning, auto_partition_disk.               *)

\* partition_disk: the menu and the dispatch on the choice.
PartitionDisk ==
    /\ pc = "partition_disk"
    /\ \E a \in MenuAnswers :
         LET choice == Strip(a)
             menu == <<"Selected disk: " \o disk,
                       "Partitioning options:",
                       "[1] Automatic: /boot (512MB, UEFI only) + / (rest)",
                       "[2] Automatic with swap: /boot (512MB, UEFI only) + swap (2GB) + / (rest)",
                       "[3] Manual partitioning with cfdisk">>
         IN  CASE choice = "1" ->
                    /\ swap' = FALSE
                    /\ Goto(menu, "auto_partition_disk", ip)
               [] choice = "2" ->
                    /\ swap' = TRUE
                    /\ Goto(menu, "auto_partition_disk", ip)
               [] choice = "3" ->
                    /\ swap' = swap
                    /\ Goto(menu, "manual_partitioning", ip)
               [] OTHER ->
                    /\ swap' = FALSE
                    /\ Goto(menu \o <<"Invalid choice. Defaulting to option 1.">>,
                            "auto_partition_disk", ip)
    /\ calls' = calls \o <<"partition_disk">>
    /\ UNCHANGED <<mainVars, netVars, device, start, table, committed, mode,
                   partitions, envVars, cfgVars, secrets, cmds>>

\* manual_partitioning: cfdisk, then the paths the operator types.
ManualPartitioning ==
    /\ pc = "manual_partitioning"
    /\ \E line \in ManualAnswers, rc \in ExitStatuses :
         /\ RunStep(rc,
                    <<"Launching cfdisk for manual partitioning on /dev/" \o disk \o "...">>,
                    "cfdisk /dev/" \o disk,
                    <<"Manual partitioning completed. Please verify your partitions with 'lsblk'.">>,
                    "format_partitions", 0)
         /\ IF RunCommandRaises(rc)
            THEN UNCHANGED <<partitions, mode>>
            ELSE /\ partitions' = Split(Strip(line))
                 /\ mode' = "manual"
    /\ UNCHANGED <<mainVars, netVars, swap, device, start, table, committed,
                   envVars, cfgVars, secrets, calls>>

\* efi_size and swap_size, in bytes.
efi_size == NatMul(NatMul(NatOf(512), NatOf(1024)), NatOf(1024))
swap_size == NatMul(NatMul(NatMul(NatOf(2), NatOf(1024)), NatOf(1024)), NatOf(1024))

\* The length of a "fixed size" geometry as the code computes it.
FixedLength(dev, size) ==
    NatFloorDiv(NatMul(NatOf(dev.length), size), dev.sectorSize)

\* Geometry.end of a geometry with a positive length.
GeometryEnd(st, len) == NatSub(NatAdd(st, len), NatOf(1))

\* The root geometry's length: device.getLength() - start - 1.
RootLength(dev, st) == PySub(NatOf(dev.length), NatAdd(st, NatOf(1)))

\* disk_obj.addPartition on a fresh GPT label: the partition takes the next
\* free number.
AddPartition(tbl, fs, boot, st, len) ==
    Append(tbl, [number |-> Len(tbl) + 1, fs |-> fs, boot |-> boot,
                 start |-> st, length |-> len])

\* Mutant: the returned list forgets the swap partition.
AutoPathsIgnoringSwap(d, u, sw) ==
    IF u
    THEN <<"/dev/" \o d \o "1", "/dev/" \o d \o "2">>
    ELSE <<"/dev/" \o d \o "1">>

\* The list auto_partition_disk returns.
AutoPaths(d, u, sw) ==
    IF u /\ sw
    THEN <<"/dev/" \o d \o "1", "/dev/" \o d \o "2", "/dev/" \o d \o "3">>
    ELSE IF u \/ sw
    THEN <<"/dev/" \o d \o "1", "/dev/" \o d \o "2">>
    ELSE <<"/dev/" \o d \o "1">>

\* An exception of the partitioning backend reaches the main guard.
BackendError(lines) == Uncaught(lines, "PartedException", "<parted error>")

\* auto_partition_disk: getDevice and freshDisk.
AutoOpen ==
    /\ pc = "auto_partition_disk"
    /\ \E dev \in Devices, ok \in BOOLEAN :
         LET line == <<"Partitioning disk: /dev/" \o disk>>
         IN  IF ok
             THEN /\ device' = dev
                  /\ table' = << >>
                  /\ Goto(line, "auto_efi", ip)
             ELSE /\ UNCHANGED <<device, table>>
                  /\ BackendError(line)
    /\ UNCHANGED <<mainVars, netVars, swap, start, committed, mode, partitions,
                   envVars, cfgVars, secrets, cmds, calls>>

\* auto_partition_disk: the EFI partition (UEFI only).
AutoEfi ==
    /\ pc = "auto_efi"
    /\ \E ok \in BOOLEAN :
         IF uefi
         THEN LET len == FixedLength(device, efi_size)
              IN  IF ok
                  THEN /\ table' = AddPartition(table, "fat32", TRUE, NatOf(1),
                                                PyNat(len))
                       /\ start' = NatAdd(GeometryEnd(NatOf(1), len), NatOf(1))
                       /\ Goto(<< >>, "auto_swap", ip)
                  ELSE /\ UNCHANGED <<table, start>>
                       /\ BackendError(<< >>)
         ELSE /\ table' = table
              /\ start' = NatOf(1)
              /\ Goto(<< >>, "auto_swap", ip)
    /\ UNCHANGED <<mainVars, netVars, swap, device, committed, mode, partitions,
                   envVars, cfgVars, secrets, cmds, calls>>

\* auto_partition_disk: the swap partition (if selected).
AutoSwap ==
    /\ pc = "auto_swap"
    /\ \E ok \in BOOLEAN :
         IF swap
         THEN LET len == FixedLength(device, swap_size)
              IN  IF ok
                  THEN /\ table' = AddPartition(table, "swap", FALSE, start,
                                                PyNat(len))
                       /\ start' = NatAdd(GeometryEnd(start, len), NatOf(1))
                       /\ Goto(<< >>, "auto_root", ip)
                  ELSE /\ UNCHANGED <<table, start>>
                       /\ BackendError(<< >>)
         ELSE /\ UNCHANGED <<table, start>>
              /\ Goto(<< >>, "auto_root", ip)
    /\ UNCHANGED <<mainVars, netVars, swap, device, committed, mode, partitions,
                   envVars, cfgVars, secrets, cmds, calls>>

\* auto_partition_disk: the root partition.
AutoRoot ==
    /\ pc = "auto_root"
    /\ \E ok \in BOOLEAN :
         IF ok
         THEN /\ table' = AddPartition(table, "ext4", FALSE, start,
                                       RootLength(device, start))
              /\ Goto(<< >>, "auto_commit", ip)
         ELSE /\ table' = table
              /\ BackendError(<< >>)
    /\ UNCHANGED <<mainVars, netVars, swap, device, start, committed, mode,
                   partitions, envVars, cfgVars, secrets, cmds, calls>>

\* auto_partition_disk: commit and the returned paths.
AutoCommit ==
    /\ pc = "auto_commit"
    /\ \E ok \in BOOLEAN :
         IF ok
         THEN /\ committed' = table
              /\ partitions' = AutoPaths(disk, uefi, swap)
              /\ mode' = "auto"
              /\ Goto(<<"Disk partitioning completed.">>, "format_partitions", 0)
         ELSE /\ UNCHANGED <<committed, partitions, mode>>
              /\ BackendError(<< >>)
    /\ UNCHANGED <<mainVars, netVars, swap, device, start, table, envVars,
                   cfgVars, secrets, cmds, calls>>

---------------------------------------------------------------------------
(* format_partitions and mount_partitions.                                 *)

\* Mutant: swap is recognised in the three-partition layout only.
FormatKindNoBiosSwap(parts, u, i) ==
    IF u /\ i = 0 THEN "fat32"
    ELSE IF Len(parts) = 3 /\ i = 1 THEN "swap"
    ELSE "ext4"

\* The branch format_partitions takes for the partition at 0-based index i.
FormatKind(parts, u, i) ==
    IF u /\ i = 0 THEN "fat32"
    ELSE IF (Len(parts) = 3 /\ i = 1) \/ (~u /\ Len(parts) = 2 /\ i = 0)
    THEN "swap"
    ELSE "ext4"

\* A filesystem made by the command about to be issued.
NewFs(type) == [type |-> type, uuid |-> "uuid-" \o ToString(Len(cmds) + 1)]

\* Where format_partitions goes after the partition at index ip.
FormatNext(rc, pre, command) ==
    IF ip + 1 = Len(partitions)
    THEN RunStep(rc, pre, command, <<"Partitions formatted.">>,
                 "mount_partitions", 0)
    ELSE RunStep(rc, pre, command, << >>, "format_partitions", ip + 1)

\* format_partitions: one iteration of the loop (its first command).
FormatPartitions ==
    /\ pc = "format_partitions"
    /\ IF partitions = << >>
       THEN /\ Goto(<<"Formatting partitions...", "Partitions formatted.">>,
                    "mount_partitions", 0)
            /\ UNCHANGED <<cmds, blk>>
       ELSE \E rc \in ExitStatuses :
              LET part == partitions[ip + 1]
                  kind == FormatKind(partitions, uefi, ip)
                  pre == IF ip = 0 THEN <<"Formatting partitions...">> ELSE << >>
                  made == IF RunCommandRaises(rc) THEN blk
                          ELSE (part :> NewFs(kind)) @@ blk
              IN  CASE kind = "fat32" ->
                         /\ FormatNext(rc, pre, "mkfs.fat -F32 " \o part)
                         /\ blk' = made
                    [] kind = "swap" ->
                         /\ RunStep(rc, pre, "mkswap " \o part, << >>,
                                    "format_swapon", ip)
                         /\ blk' = made
                    [] OTHER ->
                         /\ FormatNext(rc, pre, "mkfs.ext4 " \o part)
                         /\ blk' = made
    /\ calls' = IF ip = 0 THEN calls \o <<"format_partitions">> ELSE calls
    /\ UNCHANGED <<mainVars, netVars, partVars, mounts, files, cfgVars, secrets>>

\* format_partitions: swapon, the second command of the swap branch.
FormatSwapon ==
    /\ pc = "format_swapon"
    /\ \E rc \in ExitStatuses :
         FormatNext(rc, << >>, "swapon " \o partitions[ip + 1])
    /\ UNCHANGED <<mainVars, netVars, partVars, envVars, cfgVars, secrets, calls>>

\* Mutant: the root is taken from the front of the list.
RootPartFirst(parts) == parts[1]

\* mount_partitions: root_part = partitions[-1] and efi_part = partitions[0].
RootPart(parts) == parts[Len(parts)]
EfiPart(parts) == parts[1]

\* mount_partitions: mount root, then (UEFI) mkdir and mount boot.
MountPartitions ==
    /\ pc = "mount_partitions"
    /\ \E rc \in ExitStatuses :
         CASE ip = 0 /\ partitions = << >> ->
                /\ Uncaught(<<"Mounting partitions...">>, "IndexError",
                            "list index out of range")
                /\ UNCHANGED <<cmds, mounts>>
           [] ip = 0 /\ partitions # << >> ->
                /\ IF uefi
                   THEN RunStep(rc, <<"Mounting partitions...">>,
                                "mount " \o RootPart(partitions) \o " /mnt",
                                << >>, "mount_partitions", 1)
                   ELSE RunStep(rc, <<"Mounting partitions...">>,
                                "mount " \o RootPart(partitions) \o " /mnt",
                                <<"Partitions mounted.">>, "setup_pacman", 1)
                /\ mounts' = IF RunCommandRaises(rc) THEN mounts
                             ELSE ("/mnt" :> RootPart(partitions)) @@ mounts
           [] ip = 1 ->
                /\ RunStep(rc, << >>, "mkdir -p /mnt/boot", << >>,
                           "mount_partitions", 2)
                /\ mounts' = mounts
           [] OTHER ->
                /\ RunStep(rc, << >>,
                           "mount " \o EfiPart(partitions) \o " /mnt/boot",
                           <<"Partitions mounted.">>, "setup_pacman", 1)
                /\ mounts' = IF RunCommandRaises(rc) THEN mounts
                             ELSE ("/mnt/boot" :> EfiPart(partitions)) @@ mounts
    /\ calls' = IF ip = 0 THEN calls \o <<"mount_partitions">> ELSE calls
    /\ UNCHANGED <<mainVars, netVars, partVars, blk, files, cfgVars, secrets>>

---------------------------------------------------------------------------
(* setup_pacman, install_base_system, generate_fstab,                      *)
(* install_desktop_environment.                                            *)

SetupPacmanCommands ==
    <<"pacman-key --init",
      "pacman-key --populate archlinux",
      "echo 'Server = https://geo.mirror.pkgbuild.com/\\$repo/os/\\$arch' > /mnt/etc/pacman.d/mirrorlist",
      "pacman -Sy">>

\* setup_pacman: its four commands, one per step.
SetupPacman ==
    /\ pc = "setup_pacman"
    /\ \E rc \in ExitStatuses :
         LET pre == IF ip = 1 THEN <<"Setting up Pacman...">> ELSE << >>
         IN  IF ip < Len(SetupPacmanCommands)
             THEN RunStep(rc, pre, SetupPacmanCommands[ip], << >>,
                          "setup_pacman", ip + 1)
             ELSE RunStep(rc, pre, SetupPacmanCommands[ip], << >>,
                          "install_base_system", ip)
    /\ calls' = IF ip = 1 THEN calls \o <<"setup_pacman">> ELSE calls
    /\ UNCHANGED <<mainVars, netVars, partVars, envVars, cfgVars, secrets>>

\* install_base_system.
InstallBaseSystem ==
    /\ pc = "install_base_system"
    /\ \E rc \in ExitStatuses :
         RunStep(rc, <<"Installing base system...">>,
                 "pacstrap /mnt base linux linux-firmware",
                 <<"Base system installed.">>, "generate_fstab", ip)
    /\ calls' = calls \o <<"install_base_system">>
    /\ UNCHANGED <<mainVars, netVars, partVars, envVars, cfgVars, secrets>>

\* generate_fstab.
GenerateFstab ==
    /\ pc = "generate_fstab"
    /\ \E rc \in ExitStatuses :
         RunStep(rc, <<"Generating fstab...">>,
                 "genfstab -U /mnt >> /mnt/etc/fstab",
                 <<"fstab generated.">>, "install_desktop_environment", ip)
    /\ calls' = calls \o <<"generate_fstab">>
    /\ UNCHANGED <<mainVars, netVars, partVars, envVars, cfgVars, secrets>>

\* install_desktop_environment: the table of desktops.
desktops ==
    [k \in {"1", "2", "3", "4", "5", "6", "7", "8"} |->
       CASE k = "1" -> [name |-> "GNOME", packages |-> "gnome gnome-shell",
                        dm |-> "gdm"]
         [] k = "2" -> [name |-> "KDE Plasma",
                        packages |-> "plasma kde-applications", dm |-> "sddm"]
         [] k = "3" -> [name |-> "XFCE",
                        packages |-> "xfce4 xfce4-goodies lightdm lightdm-gtk-greeter",
                        dm |-> "lightdm"]
         [] k = "4" -> [name |-> "COSMIC (System76)",
                        packages |-> "cosmic-session", dm |-> "cosmic-session"]
         [] k = "5" -> [name |-> "MATE", packages |-> "mate mate-extra",
                        dm |-> "lightdm"]
         [] k = "6" -> [name |-> "Cinnamon",
                        packages |-> "cinnamon lightdm lightdm-gtk-greeter",
                        dm |-> "lightdm"]
         [] k = "7" -> [name |-> "LXQt",
                        packages |-> "lxqt lightdm lightdm-gtk-greeter",
                        dm |-> "lightdm"]
         [] OTHER   -> [name |-> "None", packages |-> "", dm |-> ""]]

DesktopMenu ==
    <<"Desktop environment options:">>
      \o [i \in 1..8 |-> "[" \o ToString(i) \o "] " \o desktops[ToString(i)].name]

\* install_desktop_environment: the menu and the package installation.
InstallDesktopEnvironment ==
    /\ pc = "install_desktop_environment"
    /\ \E a \in DesktopAnswers, rc \in ExitStatuses :
         LET choice == PyOr(Strip(a), "8")
         IN  IF choice \in DOMAIN desktops /\ choice # "8"
             THEN LET d == desktops[choice]
                      pre == DesktopMenu \o <<"Installing " \o d.name \o "...">>
                      command == "arch-chroot /mnt pacman -S --noconfirm "
                                   \o d.packages \o " xorg"
                  IN  /\ desktop' = d
                      /\ IF d.dm # ""
                         THEN RunStep(rc, pre, command, << >>, "desktop_enable", ip)
                         ELSE RunStep(rc, pre, command,
                                      <<d.name \o " installed and configured.">>,
                                      "collect_config", ip)
             ELSE /\ desktop' = desktop
                  /\ cmds' = cmds
                  /\ Goto(DesktopMenu \o <<"No desktop environment will be installed.">>,
                          "collect_config", ip)
    /\ calls' = calls \o <<"install_desktop_environment">>
    /\ UNCHANGED <<mainVars, netVars, partVars, envVars, hostname, username,
                   password, depth, secrets>>

\* install_desktop_environment: enabling the display manager.
DesktopEnable ==
    /\ pc = "desktop_enable"
    /\ \E rc \in ExitStatuses :
         RunStep(rc, << >>, "arch-chroot /mnt systemctl enable " \o desktop.dm,
                 <<desktop.name \o " installed and configured.">>,
                 "collect_config", ip)
    /\ UNCHANGED <<mainVars, netVars, partVars, envVars, cfgVars, secrets, calls>>

---------------------------------------------------------------------------
(* main's configuration prompts and configure_system.                      *)

\* main: hostname, username and password prompts.
CollectConfig ==
    /\ pc = "collect_config"
    /\ \E h \in HostAnswers, u \in UserAnswers, p \in PassAnswers :
         /\ hostname' = PyOr(Strip(h), "archlinux")
         /\ username' = Strip(u)
         /\ password' = p
         /\ secrets' = secrets \cup ({p} \ {""})
    /\ Goto(<< >>, "configure_system", 1)
    /\ UNCHANGED <<mainVars, netVars, partVars, envVars, desktop, depth, cmds,
                   calls>>

\* chroot_cmd.format(c).
ChrootCmd(c) == "arch-chroot /mnt /bin/bash -c '" \o c \o "'"

\* configure_system: its commands up to the call of install_bootloader.
ConfigureSystemCommands(host, user, pass) ==
    <<ChrootCmd("echo " \o host \o " > /etc/hostname"),
      ChrootCmd("echo '127.0.0.1 localhost' >> /etc/hosts"),
      ChrootCmd("echo '::1       localhost' >> /etc/hosts"),
      ChrootCmd("echo '127.0.1.1 " \o host \o ".localdomain " \o host
                  \o "' >> /etc/hosts"),
      ChrootCmd("ln -sf /usr/share/zoneinfo/UTC /etc/localtime"),
      ChrootCmd("hwclock --systohc"),
      ChrootCmd("echo 'en_US.UTF-8 UTF-8' >> /etc/locale.gen"),
      ChrootCmd("locale-gen"),
      ChrootCmd("echo 'LANG=en_US.UTF-8' > /etc/locale.conf"),
      ChrootCmd("echo 'root:" \o pass \o "' | chpasswd"),
      ChrootCmd("useradd -m -G wheel " \o user),
      ChrootCmd("echo '" \o user \o ":" \o pass \o "' | chpasswd"),
      ChrootCmd("sed -i 's/# %wheel ALL=(ALL:ALL) ALL/%wheel ALL=(ALL:ALL) ALL/' /etc/sudoers"),
      ChrootCmd("pacman -S --noconfirm networkmanager"),
      ChrootCmd("systemctl enable NetworkManager")>>

\* configure_system: one command per step, then the call of install_bootloader.
ConfigureSystem ==
    /\ pc = "configure_system"
    /\ \E rc \in ExitStatuses :
         LET script == ConfigureSystemCommands(hostname, username, password)
             pre == IF ip = 1 THEN <<"Configuring system...">> ELSE << >>
         IN  IF ip < Len(script)
             THEN /\ RunStep(rc, pre, script[ip], << >>, "configure_system", ip + 1)
                  /\ depth' = depth
             ELSE /\ RunStep(rc, pre, script[ip], << >>, "install_bootloader", ip)
                  /\ depth' = IF RunCommandRaises(rc) THEN depth ELSE 1
    /\ calls' = IF ip = 1 THEN calls \o <<"configure_system">> ELSE calls
    /\ UNCHANGED <<mainVars, netVars, partVars, envVars, desktop, hostname,
                   username, password, secrets>>

---------------------------------------------------------------------------
(* install_bootloader.                                                     *)

\* The branch of install_bootloader's if/elif chain taken for a choice.
BootBranch(choice, u) ==
    IF choice = "1" THEN "grub"
    ELSE IF choice = "2" /\ u THEN "systemd_boot"
    ELSE IF choice = "3" /\ u THEN "refind"
    ELSE "fallback"

\* The choice install_bootloader works with, a being the operator's answer.
BootChoice(u, a) == IF ~u THEN "1" ELSE PyOr(Strip(a), "1")

BootMenu(u) ==
    IF ~u
    THEN <<"BIOS detected. Only GRUB (BIOS) is supported.">>
    ELSE <<"UEFI detected. Bootloader options:", "[1] GRUB (UEFI)",
           "[2] systemd-boot", "[3] rEFInd">>

\* install_bootloader: the choice and the dispatch; the fallback branch calls
\* install_bootloader(disk, uefi) again.
InstallBootloader ==
    /\ pc = "install_bootloader"
    /\ \E a \in BootAnswers :
         LET branch == BootBranch(BootChoice(uefi, a), uefi)
         IN  CASE branch = "grub" ->
                    /\ Goto(BootMenu(uefi) \o <<"Installing GRUB...">>, "grub", 1)
                    /\ depth' = depth
               [] branch = "systemd_boot" ->
                    /\ Goto(BootMenu(uefi) \o <<"Installing systemd-boot...">>,
                            "systemd_boot", 1)
                    /\ depth' = depth
               [] branch = "refind" ->
                    /\ Goto(BootMenu(uefi) \o <<"Installing rEFInd...">>,
                            "refind", 1)
                    /\ depth' = depth
               [] OTHER ->
                    /\ depth < MaxDepth
                    /\ Goto(BootMenu(uefi) \o
                              <<"Invalid choice or not supported in BIOS mode. Defaulting to GRUB.">>,
                            "install_bootloader", ip)
                    /\ depth' = depth + 1
    /\ calls' = calls \o <<"install_bootloader">>
    /\ UNCHANGED <<mainVars, netVars, partVars, envVars, desktop, hostname,
                   username, password, secrets, cmds>>

\* What is printed while the active frames of install_bootloader return, and
\* then by configure_system.
ReturnLines ==
    [i \in 1..depth |-> "Bootloader installed."]
      \o <<"System configuration completed.">>

\* Mutant: GRUB is always installed for the EFI target.
GrubCommandsEfiOnly(u, d) ==
    <<ChrootCmd("pacman -S --noconfirm grub"),
      ChrootCmd("pacman -S --noconfirm efibootmgr"),
      ChrootCmd("grub-install --target=x86_64-efi --efi-directory=/boot --bootloader-id=GRUB"),
      ChrootCmd("grub-mkconfig -o /boot/grub/grub.cfg")>>

\* install_bootloader, choice "1": the GRUB commands.
GrubCommands(u, d) ==
    IF u
    THEN <<ChrootCmd("pacman -S --noconfirm grub"),
           ChrootCmd("pacman -S --noconfirm efibootmgr"),
           ChrootCmd("grub-install --target=x86_64-efi --efi-directory=/boot --bootloader-id=GRUB"),
           ChrootCmd("grub-mkconfig -o /boot/grub/grub.cfg")>>
    ELSE <<ChrootCmd("pacman -S --noconfirm grub"),
           ChrootCmd("grub-install --target=i386-pc /dev/" \o d),
           ChrootCmd("grub-mkconfig -o /boot/grub/grub.cfg")>>

\* install_bootloader, choice "1": GRUB.
Grub ==
    /\ pc = "grub"
    /\ \E rc \in ExitStatuses :
         LET script == GrubCommands(uefi, disk)
         IN  IF ip < Len(script)
             THEN /\ RunStep(rc, << >>, script[ip], << >>, "grub", ip + 1)
                  /\ depth' = depth
             ELSE /\ RunStep(rc, << >>, script[ip], ReturnLines, "umount", ip)
                  /\ depth' = IF RunCommandRaises(rc) THEN depth ELSE 0
    /\ UNCHANGED <<mainVars, netVars, partVars, envVars, desktop, hostname,
                   username, password, secrets, calls>>

LoaderConfPath == "/mnt/boot/loader/loader.conf"
EntryConfPath == "/mnt/boot/loader/entries/arch.conf"

LoaderConf == <<"default arch", "timeout 3", "editor 0">>

EntryConf(uuid) ==
    <<"title Arch Linux", "linux /vmlinuz-linux", "initrd /initramfs-linux.img",
      "options root=UUID=" \o uuid \o " rw">>

\* The device whose UUID the systemd-boot branch asks blkid for.
RootUuidDevice(d) == "/dev/" \o d \o "2"

BlkidCommand(dev) == "blkid -s UUID -o value " \o dev

\* install_bootloader, choice "2" under UEFI: systemd-boot.
SystemdBoot ==
    /\ pc = "systemd_boot"
    /\ CASE ip = 1 ->
              /\ \E rc \in ExitStatuses :
                   RunStep(rc, << >>, ChrootCmd("pacman -S --noconfirm efibootmgr"),
                           << >>, "systemd_boot", 2)
              /\ UNCHANGED <<files, depth>>
         [] ip = 2 ->
              /\ \E rc \in ExitStatuses :
                   RunStep(rc, << >>, ChrootCmd("bootctl --path=/boot install"),
                           << >>, "systemd_boot", 3)
              /\ UNCHANGED <<files, depth>>
         [] OTHER ->
              \* loader.conf, blkid through check_output, entries/arch.conf
              LET dev == RootUuidDevice(disk)
                  command == BlkidCommand(dev)
              IN  \E rc \in {0, 2} :
                    /\ rc = 0 => dev \in DOMAIN blk
                    /\ cmds' = Append(cmds, [cmd |-> command, rc |-> rc])
                    /\ IF rc # 0
                       THEN /\ files' = (LoaderConfPath :> LoaderConf) @@ files
                            /\ depth' = depth
                            /\ Uncaught(<< >>, "CalledProcessError",
                                        CalledProcessErrorText(command, rc))
                       ELSE /\ files' = (EntryConfPath :> EntryConf(Strip(blk[dev].uuid)))
                                          @@ (LoaderConfPath :> LoaderConf) @@ files
                            /\ depth' = 0
                            /\ Goto(ReturnLines, "umount", ip)
    /\ UNCHANGED <<mainVars, netVars, partVars, blk, mounts, desktop, hostname,
                   username, password, secrets, calls>>

\* install_bootloader, choice "3" under UEFI: rEFInd.
Refind ==
    /\ pc = "refind"
    /\ \E rc \in ExitStatuses :
         IF ip = 1
         THEN /\ RunStep(rc, << >>, ChrootCmd("pacman -S --noconfirm refind"),
                         << >>, "refind", 2)
              /\ depth' = depth
         ELSE /\ RunStep(rc, << >>, ChrootCmd("refind-install"), ReturnLines,
                         "umount", ip)
              /\ depth' = IF RunCommandRaises(rc) THEN depth ELSE 0
    /\ UNCHANGED <<mainVars, netVars, partVars, envVars, desktop, hostname,
                   username, password, secrets, calls>>

---------------------------------------------------------------------------
(* The end of main, and the operator's interrupt.                          *)

UmountCommand == "umount -R /mnt"

\* main: unmount, the closing message, and the normal end of the process.
Unmount ==
    /\ pc = "umount"
    /\ \E rc \in ExitStatuses :
         /\ cmds' = Append(cmds, [cmd |-> UmountCommand, rc |-> rc])
         /\ IF RunCommandRaises(rc)
            THEN Uncaught(RunCommandErrorLines(UmountCommand), "CalledProcessError",
                          CalledProcessErrorText(UmountCommand, rc))
            ELSE /\ stdout' = stdout \o
                      <<"Installation completed! You can now reboot into your new Arch Linux system.">>
                 /\ pc' = "exit"
                 /\ ip' = ip
                 /\ failure' = failure
                 /\ exitCode' = 0
    /\ calls' = calls \o <<"umount">>
    /\ UNCHANGED <<mainVars, netVars, partVars, envVars, cfgVars, secrets>>

\* KeyboardInterrupt at any point of main.
Interrupt ==
    /\ pc \notin {"root_check", "exit"}
    /\ Die(<<"\nInstallation aborted by user.">>, "KeyboardInterrupt")
    /\ UNCHANGED <<mainVars, netVars, partVars, envVars, cfgVars, secrets,
                   cmds, calls>>

---------------------------------------------------------------------------
(* The specification.                                                      *)

InitCommon ==
    /\ ip = 0
    /\ netStage = "initial"
    /\ wdev = Unset
    /\ disks = PyNone
    /\ swap = FALSE
    /\ device = [length |-> 0, sectorSize |-> 0]
    /\ start = << >>
    /\ table = << >>
    /\ committed = << >>
    /\ mode = Unset
    /\ partitions = << >>
    /\ blk = << >>
    /\ mounts = << >>
    /\ files = << >>
    /\ desktop = desktops["8"]
    /\ hostname = Unset
    /\ username = Unset
    /\ password = Unset
    /\ secrets = {}
    /\ depth = 0
    /\ cmds = << >>
    /\ stdout = << >>
    /\ failure = "none"
    /\ exitCode = Running
    /\ calls = << >>

\* The process starts main().
InitMain ==
    /\ InitCommon
    /\ entry = "main"
    /\ pc = "root_check"
    /\ uefi = FALSE
    /\ disk = Unset

\* The stages are entered at main's call partition_disk(disk, uefi).
InitStages ==
    /\ InitCommon
    /\ entry = "partition_disk"
    /\ pc = "partition_disk"
    /\ uefi \in BOOLEAN
    /\ disk \in DiskNames

Init == InitMain \/ InitStages

Next ==
    \/ RootCheck
    \/ Main
    \/ CheckInternet
    \/ NetworkChoice
    \/ WifiStation
    \/ WifiConnect
    \/ ListDisks
    \/ SelectDisk
    \/ PartitionDisk
    \/ ManualPartitioning
    \/ AutoOpen
    \/ AutoEfi
    \/ AutoSwap
    \/ AutoRoot
    \/ AutoCommit
    \/ FormatPartitions
    \/ FormatSwapon
    \/ MountPartitions
    \/ SetupPacman
    \/ InstallBaseSystem
    \/ GenerateFstab
    \/ InstallDesktopEnvironment
    \/ DesktopEnable
    \/ CollectConfig
    \/ ConfigureSystem
    \/ InstallBootloader
    \/ Grub
    \/ SystemdBoot
    \/ Refind
    \/ Unmount
    \/ Interrupt

Spec == Init /\ [][Next]_vars

---------------------------------------------------------------------------
(* Properties.                                                             *)

Issued(c) == \E i \in DOMAIN cmds : cmds[i].cmd = c
Succeeded(c) == \E i \in DOMAIN cmds : cmds[i] = [cmd |-> c, rc |-> 0]
TimesIssued(c) == Cardinality({i \in DOMAIN cmds : cmds[i].cmd = c})
Printed(line) == \E i \in DOMAIN stdout : stdout[i] = line
TimesCalled(f) == Cardinality({i \in DOMAIN calls : calls[i] = f})

\* The filesystem types auto_partition_disk is meant to create, in order.
ExpectedLayout ==
    (IF uefi THEN <<"fat32">> ELSE << >>)
      \o (IF swap THEN <<"swap">> ELSE << >>) \o <<"ext4">>

\* C1: once auto_partition_disk has returned, the committed table holds an
\* EFI (fat32, boot flag) partition iff UEFI, a swap partition iff swap was
\* requested and exactly one root (ext4) partition, in the order EFI, SWAP,
\* ROOT; the returned list has one path per partition, the i-th path is
\* /dev/<disk><number of the i-th partition>, and the last path is the root.
C1_AutoLayoutAndPaths ==
    mode = "auto" =>
      /\ [i \in DOMAIN committed |-> committed[i].fs] = ExpectedLayout
      /\ \A i \in DOMAIN committed :
           /\ committed[i].number = i
           /\ committed[i].boot <=> committed[i].fs = "fat32"
      /\ Len(partitions) = Len(committed)
      /\ \A i \in DOMAIN partitions :
           partitions[i] = "/dev/" \o disk \o ToString(committed[i].number)
      /\ committed[Len(partitions)].fs = "ext4"

\* C1 witness: UEFI with swap, three partitions committed and three paths.
C1_Witness ==
    /\ mode = "auto"
    /\ uefi
    /\ swap
    /\ Len(committed) = 3
    /\ partitions = <<"/dev/sda1", "/dev/sda2", "/dev/sda3">>

FormatDone == Printed("Partitions formatted.")

\* C2: on the paths returned by automatic partitioning, mkfs.fat is issued
\* only for the EFI partition's path, mkswap and swapon only for the swap
\* partition's path, mkfs.ext4 only for the root partition's path, none of
\* them twice; and when format_partitions has finished, every path has got
\* the one operation of its partition.
C2_FormatFollowsLayout ==
    mode = "auto" =>
      \A i \in DOMAIN partitions :
        LET p == partitions[i]
            fs == committed[i].fs
            fat == "mkfs.fat -F32 " \o p
            mk == "mkswap " \o p
            on == "swapon " \o p
            ext == "mkfs.ext4 " \o p
        IN  /\ Issued(fat) => fs = "fat32"
            /\ Issued(mk) \/ Issued(on) => fs = "swap"
            /\ Issued(ext) => fs = "ext4"
            /\ \A c \in {fat, mk, on, ext} : TimesIssued(c) <= 1
            /\ FormatDone =>
                 /\ fs = "fat32" => Succeeded(fat)
                 /\ fs = "swap" => Succeeded(mk) /\ Succeeded(on)
                 /\ fs = "ext4" => Succeeded(ext)

\* C2 witness: BIOS with swap, formatted: swap on the first path, ext4 on
\* the second.
C2_Witness ==
    /\ mode = "auto"
    /\ ~uefi
    /\ swap
    /\ FormatDone
    /\ Succeeded("swapon /dev/sda1")
    /\ Succeeded("mkfs.ext4 /dev/sda2")

\* C3: install_bootloader is called at most twice in a run: the call of
\* configure_system and at most one recursive retry.
C3_AtMostOneRetry == TimesCalled("install_bootloader") <= 2

\* C4: after automatic partitioning, the loader entry written by the
\* systemd-boot branch names the UUID of the partition mounted at /mnt.
C4_EntryNamesMountedRoot ==
    (mode = "auto" /\ EntryConfPath \in DOMAIN files) =>
      files[EntryConfPath][4]
        = "options root=UUID=" \o blk[mounts["/mnt"]].uuid \o " rw"

StageOrder ==
    <<"detect_uefi", "configure_network", "list_disks", "partition_disk",
      "format_partitions", "mount_partitions", "setup_pacman",
      "install_base_system", "generate_fstab", "install_desktop_environment",
      "configure_system", "install_bootloader", "umount">>

\* calls without the repeated calls of install_bootloader.
RECURSIVE Stages(_)
Stages(cs) ==
    IF Len(cs) < 2 THEN cs
    ELSE IF cs[1] = "install_bootloader" /\ cs[2] = "install_bootloader"
    THEN Stages(Tail(cs))
    ELSE <<cs[1]>> \o Stages(Tail(cs))

\* C5: a run of main in which the operator names a disk of the machine, is
\* not interrupted, and every external command succeeds ends with exit
\* status 0, having gone through the stages in order.
C5_FullCompletion ==
    ( /\ entry = "main"
      /\ pc = "exit"
      /\ disk \in DiskNames
      /\ failure # "KeyboardInterrupt"
      /\ \A i \in DOMAIN cmds : cmds[i].rc = 0 )
    => (exitCode = 0 /\ Stages(calls) = StageOrder)

NoLaterCommand(i) == i = Len(cmds) /\ exitCode = 1 /\ pc = "exit"

C6_State ==
    /\ \A i \in DOMAIN cmds :
         (cmds[i].rc # 0 /\ cmds[i].cmd # PingCommand) => NoLaterCommand(i)
    /\ \A i \in DOMAIN cmds :
         (cmds[i].rc # 0 /\ i > 1) => NoLaterCommand(i)
    /\ failure # "none" => exitCode = 1
    /\ Printed("Skipping network configuration. Installation may fail without internet.")
         => exitCode = 1
    /\ (entry = "main" /\ disk # Unset /\ disk \notin DiskNames) =>
         (exitCode = 1 /\ "partition_disk" \notin Range(calls))
    /\ (pc = "exit") <=> (exitCode # Running)
    /\ exitCode = 0 =>
         /\ failure = "none"
         /\ cmds # << >>
         /\ cmds[Len(cmds)] = [cmd |-> UmountCommand, rc |-> 0]
         /\ TimesIssued(UmountCommand) = 1

\* C6: a checked command that returns non-zero (the first connectivity probe
\* excepted) is the last command issued and the process has exit status 1;
\* every exception, sys.exit(1) and interrupt ends with exit status 1; after
\* a disk name that is no disk of the machine nothing is partitioned and the
\* exit status is 1; exit status 0 only with a
\* successful final umount as the last command; and once the process has
\* exited no command is issued and nothing is printed.
C6_FailureIsFatal == []C6_State /\ [][exitCode = Running]_vars

\* C6 witness: pacstrap failed with the target mounted: it is the last
\* command, nothing was unmounted, exit status 1.
C6_Witness ==
    /\ cmds # << >>
    /\ cmds[Len(cmds)] = [cmd |-> "pacstrap /mnt base linux linux-firmware", rc |-> 1]
    /\ "/mnt" \in DOMAIN mounts
    /\ ~Issued(UmountCommand)
    /\ exitCode = 1

\* C7: no printed line contains a secret typed at a getpass prompt.
C7_SecretsNeverPrinted ==
    \A i \in DOMAIN stdout : \A s \in secrets : ~Contains(stdout[i], s)

\* The sector after the last sector of partition e.
EndPlusOne(e) == NatAdd(e.start, e.length.mag)

\* C8: in the partitions auto_partition_disk requests, the EFI partition is
\* 512 MiB / sectorSize sectors long and the swap partition
\* 2 GiB / sectorSize sectors, whatever the device length; the root
\* partition takes what is left after them minus one sector; and on a
\* device that can hold them the regions have positive length, lie within
\* the device and do not overlap.
C8_FixedSizesWithinDevice ==
    LET L == NatOf(device.length)
        efiLen == NatFloorDiv(efi_size, device.sectorSize)
        swapLen == NatFloorDiv(swap_size, device.sectorSize)
        fits == NatLess(NatAdd(NatAdd(efiLen, swapLen), NatOf(2)), L)
    IN  \A i \in DOMAIN table :
          LET e == table[i]
          IN  /\ e.fs = "fat32" => e.length = PyNat(efiLen)
              /\ e.fs = "swap" => e.length = PyNat(swapLen)
              /\ e.fs = "ext4" =>
                   e.length = PySub(L, NatAdd(e.start, NatOf(1)))
              /\ fits =>
                   /\ ~PyLessThanOne(e.length)
                   /\ NatLeq(EndPlusOne(e), L)
                   /\ \A j \in DOMAIN table :
                        j < i => NatLeq(EndPlusOne(table[j]), e.start)

IsMount(c) == Len(c) >= 6 /\ SubSeq(c, 1, 6) = "mount "
MountIndexes == {i \in DOMAIN cmds : IsMount(cmds[i].cmd)}

\* C9: the first mount command mounts the last path at /mnt; the only other
\* mount command mounts the first path at /mnt/boot, is issued only under
\* UEFI and right after a successful mkdir -p /mnt/boot that followed the
\* successful root mount; and when mount_partitions has finished, the boot
\* mount was made iff the firmware mode is UEFI.
C9_RootMountedFirst ==
    LET root == "mount " \o partitions[Len(partitions)] \o " /mnt"
        boot == "mount " \o partitions[1] \o " /mnt/boot"
    IN  /\ Cardinality(MountIndexes) <= 2
        /\ \A i \in MountIndexes :
             \/ /\ \A j \in MountIndexes : i <= j
                /\ cmds[i].cmd = root
             \/ /\ uefi
                /\ cmds[i].cmd = boot
                /\ i > 2
                /\ cmds[i - 1] = [cmd |-> "mkdir -p /mnt/boot", rc |-> 0]
                /\ cmds[i - 2] = [cmd |-> root, rc |-> 0]
        /\ Printed("Partitions mounted.") =>
             /\ Succeeded(root)
             /\ uefi <=> Cardinality(MountIndexes) = 2
             /\ uefi => Succeeded(boot)

\* C9 witness: UEFI, two different paths, both mounts made.
C9_Witness ==
    /\ uefi
    /\ Printed("Partitions mounted.")
    /\ Len(partitions) >= 2
    /\ mounts["/mnt"] = partitions[Len(partitions)]
    /\ mounts["/mnt/boot"] = partitions[1]
    /\ partitions[1] # partitions[Len(partitions)]

BootloaderReturned == Printed("System configuration completed.")

AllSucceeded(script) == \A i \in DOMAIN script : Succeeded(script[i])

GrubDone == AllSucceeded(GrubCommands(uefi, disk))
SystemdBootDone ==
    /\ Succeeded(ChrootCmd("pacman -S --noconfirm efibootmgr"))
    /\ Succeeded(ChrootCmd("bootctl --path=/boot install"))
    /\ {LoaderConfPath, EntryConfPath} \subseteq DOMAIN files
RefindDone ==
    /\ Succeeded(ChrootCmd("pacman -S --noconfirm refind"))
    /\ Succeeded(ChrootCmd("refind-install"))

GrubStarted == Issued(ChrootCmd("pacman -S --noconfirm grub"))
SystemdBootStarted ==
    \/ Issued(ChrootCmd("bootctl --path=/boot install"))
    \/ LoaderConfPath \in DOMAIN files
RefindStarted == Issued(ChrootCmd("pacman -S --noconfirm refind"))

BackendsStarted ==
    (IF GrubStarted THEN {"grub"} ELSE {})
      \cup (IF SystemdBootStarted THEN {"systemd-boot"} ELSE {})
      \cup (IF RefindStarted THEN {"refind"} ELSE {})

\* C10: at most one bootloader backend is ever started; when
\* install_bootloader has returned, exactly one backend was started and its
\* whole install sequence succeeded, also after invalid choices; systemd-boot
\* and rEFInd are started only under UEFI, and under BIOS the backend is GRUB
\* installed with --target=i386-pc on /dev/<disk>.
C10_ExactlyOnePermittedBackend ==
    /\ Cardinality(BackendsStarted) <= 1
    /\ (SystemdBootStarted \/ RefindStarted) => uefi
    /\ BootloaderReturned =>
         /\ Cardinality(BackendsStarted) = 1
         /\ GrubStarted => GrubDone
         /\ SystemdBootStarted => SystemdBootDone
         /\ RefindStarted => RefindDone
         /\ ~uefi =>
              /\ GrubStarted
              /\ Succeeded(ChrootCmd("grub-install --target=i386-pc /dev/" \o disk))
              /\ \A i \in DOMAIN cmds : ~Contains(cmds[i].cmd, "x86_64-efi")

\* C10 witness: install_bootloader returned after an invalid choice and a
\* retry that installed rEFInd.
C10_Witness ==
    /\ BootloaderReturned
    /\ TimesCalled("install_bootloader") >= 2
    /\ RefindDone

===========================================================================
